---------------------------- MODULE Spec2Model ----------------------------
(***************************************************************************)
(* Model of td02imd_modern.c (Teledisk TD0 -> ImageDisk IMD converter):    *)
(* the adaptive-Huffman / LZSS decompressor (init_decompress, update,      *)
(* GetChar, GetBit, GetByte, DecodeChar, DecodePosition, getbyte) and the  *)
(* container walk of main with its three sector-payload methods.           *)
(*                                                                         *)
(* C arrays are functions over 0..n-1.  `unsigned` is 32 bits wide and     *)
(* `unsigned char` 8 bits.  TLC's integers end at 2^31 - 1, so the two     *)
(* unsigned globals whose value passes that (Bitbuff, GBcheck) are kept as *)
(* two 16-bit halves [hi, lo]; every other unsigned stays below 2^31 in    *)
(* every run of the model and is a plain integer.                          *)
(*                                                                         *)
(* Out-of-bounds accesses.  An array load outside the array returns an     *)
(* unspecified value or kills the process; the model draws the value from  *)
(* the set Wild or takes the Trap outcome.  A store outside the array has  *)
(* no outcome the model can follow: the run is stopped there with          *)
(* fault = "store".  The same holds for a read past the end of the local   *)
(* fragment buffer of main.                                                *)
(***************************************************************************)
EXTENDS Integers, Sequences, FiniteSets, TLC

\* ------------------------------------------------------------------------
\* Program constants (td02imd_modern.c lines 11-27)
\* ------------------------------------------------------------------------
SBSIZE == 4096
LASIZE == 60
THRESHOLD == 2
N_CHAR == (256 - THRESHOLD + LASIZE)
TSIZE == (N_CHAR * 2 - 1)
ROOT == (TSIZE - 1)
MAX_FREQ == 32768
SEC_NODAT == 32

\* Width of the C types: unsigned char, and half of an unsigned
U8 == 256
H16 == 65536
\* EOF as returned by fgetc/getc, and the -1 getbyte returns once Eof is set
C_EOF == -1

\* ------------------------------------------------------------------------
\* Bitwise operators on naturals
\* ------------------------------------------------------------------------
RECURSIVE BitOr(_, _)
BitOr(a, b) ==
    IF a = 0 THEN b
    ELSE IF b = 0 THEN a
    ELSE (IF (a % 2 = 1) \/ (b % 2 = 1) THEN 1 ELSE 0)
         + 2 * BitOr(a \div 2, b \div 2)

RECURSIVE BitAnd(_, _)
BitAnd(a, b) ==
    IF a = 0 \/ b = 0 THEN 0
    ELSE (IF (a % 2 = 1) /\ (b % 2 = 1) THEN 1 ELSE 0)
         + 2 * BitAnd(a \div 2, b \div 2)

Pow2(n) == 2 ^ n

\* x >> n
Shr(x, n) == x \div Pow2(n)

\* A 32-bit unsigned as halves [hi, lo], value hi * 2^16 + lo
Zero32 == [hi |-> 0, lo |-> 0]

\* b | v for v < 2^16
OrLow(b, v) == [b EXCEPT !.lo = BitOr(b.lo, v)]

\* b >> n and b << n for 0 < n < 16; the right shift is below 2^31
Shr32(b, n) == b.hi * Pow2(16 - n) + Shr(b.lo, n)
Shl32(b, n) == [hi |-> (b.hi * Pow2(n) + Shr(b.lo, 16 - n)) % H16,
                lo |-> (b.lo * Pow2(n)) % H16]

\* --b
Dec32(b) ==
    IF b.lo > 0 THEN [b EXCEPT !.lo = @ - 1]
    ELSE IF b.hi > 0 THEN [hi |-> b.hi - 1, lo |-> H16 - 1]
    ELSE [hi |-> H16 - 1, lo |-> H16 - 1]

Min(a, b) == IF a < b THEN a ELSE b

\* The function f with its values computed: TLC keeps [x \in S |-> e] as a
\* closure over e until then
Array(f) == f @@ << >>

\* The element of a one-element set.  In Only({ e(x) : x \in {v} }) the value
\* v is computed once and e uses it as x: the form taken here by a local
\* variable that holds the result of a call.
Only(S) == CHOOSE x \in S : TRUE

\* ------------------------------------------------------------------------
\* Huffman decoder tables (lines 30-49)
\* ------------------------------------------------------------------------
d_code_table == <<
     0,  0,  0,  0,  0,  0,  0,  0,  0,  0,  0,  0,  0,  0,  0,  0,
     0,  0,  0,  0,  0,  0,  0,  0,  0,  0,  0,  0,  0,  0,  0,  0,
     1,  1,  1,  1,  1,  1,  1,  1,  1,  1,  1,  1,  1,  1,  1,  1,
     2,  2,  2,  2,  2,  2,  2,  2,  2,  2,  2,  2,  2,  2,  2,  2,
     3,  3,  3,  3,  3,  3,  3,  3,  3,  3,  3,  3,  3,  3,  3,  3,
     4,  4,  4,  4,  4,  4,  4,  4,  5,  5,  5,  5,  5,  5,  5,  5,
     6,  6,  6,  6,  6,  6,  6,  6,  7,  7,  7,  7,  7,  7,  7,  7,
     8,  8,  8,  8,  8,  8,  8,  8,  9,  9,  9,  9,  9,  9,  9,  9,
    10, 10, 10, 10, 10, 10, 10, 10, 11, 11, 11, 11, 11, 11, 11, 11,
    12, 12, 12, 12, 13, 13, 13, 13, 14, 14, 14, 14, 15, 15, 15, 15,
    16, 16, 16, 16, 17, 17, 17, 17, 18, 18, 18, 18, 19, 19, 19, 19,
    20, 20, 20, 20, 21, 21, 21, 21, 22, 22, 22, 22, 23, 23, 23, 23,
    24, 24, 25, 25, 26, 26, 27, 27, 28, 28, 29, 29, 30, 30, 31, 31,
    32, 32, 33, 33, 34, 34, 35, 35, 36, 36, 37, 37, 38, 38, 39, 39,
    40, 40, 41, 41, 42, 42, 43, 43, 44, 44, 45, 45, 46, 46, 47, 47,
    48, 49, 50, 51, 52, 53, 54, 55, 56, 57, 58, 59, 60, 61, 62, 63 >>

d_code == [i \in 0..255 |-> d_code_table[i + 1]]

d_len == [i \in 0..15 |->
    << 2, 2, 3, 3, 3, 4, 4, 4, 4, 5, 5, 5, 6, 6, 6, 7 >>[i + 1]]

\* ------------------------------------------------------------------------
\* State
\* ------------------------------------------------------------------------
VARIABLES
    \* the decompressor's globals (lines 57-72)
    parent, son, freq, Bits, Bitbuff, GBcheck, GBr, GBi, GBj, GBk,
    GBstate, Eof, Advcomp, ring_buff,
    \* fpi: the input file's bytes and the stream position
    file, fpos,
    \* the process: where it stands, and "" or the kind of the access
    \* outside an array at which the run was stopped
    pc, fault,
    \* the value the last getbyte call returned
    gbRet,
    \* observation of the last call made by the caller (getbyte, or one of
    \* the decompressor's functions on its own): GetChar calls made, GetChar
    \* calls made with Eof already set, fgetc end-of-input results,
    \* DecodeChar calls, loads outside an array, Eof at entry, ...; and the
    \* bytes getbyte has returned so far (emitted)
    obs,
    \* number of calls made so far
    ncalls

decVars == << parent, son, freq, Bits, Bitbuff, GBcheck, GBr, GBi, GBj, GBk,
              GBstate, Eof, Advcomp, ring_buff >>

\* The outcome of a load outside an array that kills the process
Trap == -1

\* Values a load outside an array is taken to return: the number of a tree
\* slot, which keeps a tree walk going, and the leaf of the first match
\* symbol, which ends it
Wild == { 1, TSIZE + 256 }

\* ------------------------------------------------------------------------
\* The decompressor's memory as one record, threaded through the functions
\* together with the stream position, the return value of the function
\* that ran last (ret) and the observation counters
\* ------------------------------------------------------------------------
\* nGetBit, nGetByte: calls of GetBit and GetByte; sym: the symbol
\* DecodeChar returned; posByte, pos: the byte DecodePosition got from
\* GetByte and the value it returned; nRebuild: runs of the rebuild of
\* update; rootAtUpdate, rootAfterRebuild: freq[ROOT] when update was
\* entered and right after its rebuild; fn, arg: the function the caller
\* called and its argument (-1: none); dist: the value of the last
\* DecodePosition call getbyte made (kept from call to call, as emitted is)
NoObs == [ nGetChar |-> 0, nAfterEof |-> 0, nEofRead |-> 0, nDecodeChar |-> 0,
           nWild |-> 0, nRaw |-> 0, walkRoot |-> 0, eofAtEntry |-> 0,
           stateAtEntry |-> 0,
           nGetBit |-> 0, nGetByte |-> 0, sym |-> -1, posByte |-> -1,
           pos |-> -1, nRebuild |-> 0, rootAtUpdate |-> -1,
           rootAfterRebuild |-> -1, fn |-> "", arg |-> -1,
           emitted |-> << >>, dist |-> -1 ]

\* A counted loop over lo..hi-1 is written by halving the range: the
\* iterations still run in order, each on the result of the one before (the
\* test of h.fault between the halves makes TLC compute the first half
\* before it enters the second), and the nesting of the evaluation stays
\* logarithmic in the trip count.

\* The memory of a process at its start: globals are zero (lines 57-72)
ZeroGlobals ==
    [ parent    |-> Array([i \in 0..(TSIZE + N_CHAR - 1) |-> 0]),
      son       |-> Array([i \in 0..(TSIZE - 1) |-> 0]),
      freq      |-> Array([i \in 0..TSIZE |-> 0]),
      Bits      |-> 0, Bitbuff |-> Zero32, GBcheck |-> Zero32,
      GBr       |-> 0, GBi |-> 0, GBj |-> 0, GBk |-> 0,
      GBstate   |-> 0, Eof |-> 0, Advcomp |-> 0,
      ring_buff |-> Array([i \in 0..(SBSIZE + LASIZE - 2) |-> 0]),
      fpos |-> 0, ret |-> 0, fault |-> "", wild |-> Trap, obs |-> NoObs ]

\* ---- init_decompress (lines 142-162) ----

RECURSIVE InitLeaves(_, _, _)
\* for(i = j = 0; i < N_CHAR; ++i) { freq[i] = 1; son[i] = i + TSIZE;
\*                                   parent[i+TSIZE] = i; }
\* iterations i = lo..hi-1
InitLeaves(g, lo, hi) ==
    IF lo >= hi THEN g
    ELSE IF hi = lo + 1
    THEN [g EXCEPT !.freq[lo] = 1,
                   !.son[lo] = lo + TSIZE,
                   !.parent[lo + TSIZE] = lo]
    ELSE LET mid == (lo + hi) \div 2
         IN  Only({ IF h.fault # "" THEN h ELSE InitLeaves(h, mid, hi) :
                    h \in { InitLeaves(g, lo, mid) } })

RECURSIVE InitInternal(_, _, _)
\* while(i <= ROOT) { freq[i] = freq[j] + freq[j+1]; son[i] = j;
\*                    parent[j] = parent[j+1] = i++; j += 2; }
\* iterations i = lo..hi-1; j starts at 0 when i is N_CHAR and moves by 2
InitInternal(g, lo, hi) ==
    IF lo >= hi THEN g
    ELSE IF hi = lo + 1
    THEN LET j == 2 * (lo - N_CHAR)
         IN  [g EXCEPT !.freq[lo] = g.freq[j] + g.freq[j + 1],
                       !.son[lo] = j,
                       !.parent[j] = lo,
                       !.parent[j + 1] = lo]
    ELSE LET mid == (lo + hi) \div 2
         IN  Only({ IF h.fault # "" THEN h ELSE InitInternal(h, mid, hi) :
                    h \in { InitInternal(g, lo, mid) } })

init_decompress(g) ==
    Only({
        [t EXCEPT !.ring_buff = Array([i \in 0..(SBSIZE + LASIZE - 2) |-> 32]),
                  !.freq[TSIZE] = 65535,
                  !.Advcomp = 65535 % U8,
                  !.parent[ROOT] = 0,
                  !.Bitbuff = Zero32,
                  !.Bits = 0,
                  !.GBr = SBSIZE - LASIZE] :
        t \in { InitInternal(l, N_CHAR, ROOT + 1) :
                   l \in { InitLeaves(g, 0, N_CHAR) } } })

\* ---- update (lines 164-214) ----

RECURSIVE CollectLeaves(_, _, _)
\* for(i = j = 0; i < TSIZE; ++i) if(son[i] >= TSIZE) {
\*     freq[j] = (freq[i] + 1) / 2; son[j] = son[i]; ++j; }
\* iterations i = lo..hi-1 on st = [g, j]
CollectLeaves(st, lo, hi) ==
    IF lo >= hi THEN st
    ELSE IF hi = lo + 1
    THEN IF st.g.son[lo] >= TSIZE
         THEN [g |-> [st.g EXCEPT !.freq[st.j] = (st.g.freq[lo] + 1) \div 2,
                                  !.son[st.j] = st.g.son[lo]],
               j |-> st.j + 1]
         ELSE st
    ELSE LET mid == (lo + hi) \div 2
         IN  Only({ IF h.g.fault # "" THEN h ELSE CollectLeaves(h, mid, hi) :
                    h \in { CollectLeaves(st, lo, mid) } })

RECURSIVE LastNotAbove(_, _, _, _)
\* the greatest k in lo..hi with f >= freq[k], or -1
LastNotAbove(g, f, lo, hi) ==
    IF lo > hi THEN -1
    ELSE IF lo = hi THEN (IF f < g.freq[lo] THEN -1 ELSE lo)
    ELSE LET mid == (lo + hi) \div 2
         IN  Only({ IF r # -1 THEN r ELSE LastNotAbove(g, f, lo, mid) :
                    r \in { LastNotAbove(g, f, mid + 1, hi) } })

\* for(k = j - 1; f < freq[k]; --k); ++k;  the scan down from j-1 ends at
\* the greatest k with f >= freq[k]
InsertPoint(g, f, j) == LastNotAbove(g, f, 0, j - 1) + 1

RECURSIVE BuildInternal(_, _, _)
\* for(i = 0, j = N_CHAR; j < TSIZE; i += 2, ++j): pair slots i, i+1 into
\* a node of frequency f and insert it at k, moving freq[k..j-1] and
\* son[k..j-1] up by one (the two memmove calls).  Iterations j = lo..hi-1.
BuildInternal(g, lo, hi) ==
    IF lo >= hi THEN g
    ELSE IF hi = lo + 1
    THEN LET j == lo
             i == 2 * (j - N_CHAR)
         IN  Only({
               [g1 EXCEPT
                !.freq = Array([x \in 0..TSIZE |->
                            IF x = k THEN g1.freq[j]
                            ELSE IF x > k /\ x <= j THEN g1.freq[x - 1]
                            ELSE g1.freq[x]]),
                !.son = Array([x \in 0..(TSIZE - 1) |->
                            IF x = k THEN i
                            ELSE IF x > k /\ x <= j THEN g1.son[x - 1]
                            ELSE g1.son[x]])] :
               <<g1, k>> \in
                 { <<n, InsertPoint(n, n.freq[j], j)>> :
                     n \in { [g EXCEPT !.freq[j] =
                                         g.freq[i] + g.freq[i + 1]] } } })
    ELSE LET mid == (lo + hi) \div 2
         IN  Only({ IF h.fault # "" THEN h ELSE BuildInternal(h, mid, hi) :
                    h \in { BuildInternal(g, lo, mid) } })

RECURSIVE LinkParents(_, _, _)
\* for(i = 0; i < TSIZE; ++i) if((k = son[i]) >= TSIZE) parent[k] = i;
\*                            else parent[k] = parent[k+1] = i;
\* iterations i = lo..hi-1
LinkParents(g, lo, hi) ==
    IF lo >= hi THEN g
    ELSE IF hi = lo + 1
    THEN LET k == g.son[lo]
         IN  IF k >= TSIZE
             THEN [g EXCEPT !.parent[k] = lo]
             ELSE [g EXCEPT !.parent[k] = lo, !.parent[k + 1] = lo]
    ELSE LET mid == (lo + hi) \div 2
         IN  Only({ IF h.fault # "" THEN h ELSE LinkParents(h, mid, hi) :
                    h \in { LinkParents(g, lo, mid) } })

\* the body of if(freq[ROOT] == MAX_FREQ) (lines 168-193)
Rebuild(g) ==
    Only({ Only({ [t EXCEPT !.obs.nRebuild = @ + 1,
                            !.obs.rootAfterRebuild = t.freq[ROOT]] :
                  t \in { LinkParents(built, 0, TSIZE) } }) :
           built \in { BuildInternal(leaves.g, N_CHAR, TSIZE) :
                         leaves \in { CollectLeaves([g |-> g, j |-> 0],
                                                    0, TSIZE) } } })

\* Variant of the test below that waits for the root to pass MAX_FREQ
RebuildDueAbove(g) == g.freq[ROOT] > MAX_FREQ

\* if(freq[ROOT] == MAX_FREQ) (line 167)
RebuildDue(g) == g.freq[ROOT] = MAX_FREQ

\* the least l in lo..hi with k <= freq[l], or -1
FirstNotBelow(g, k, lo, hi) ==
    IF \E l \in lo..hi : k <= g.freq[l]
    THEN CHOOSE l \in lo..hi :
             k <= g.freq[l] /\ \A j \in lo..(l - 1) : k > g.freq[j]
    ELSE -1

\* Variant of the scan below that also passes the slots whose frequency
\* is k
ScanUpPastEqual(g, k, c) == FirstNotBelow(g, k + 1, c + 2, TSIZE)

\* while(k > freq[++l]); entered with l = c + 1: the scan up ends at the
\* least l > c + 1 with k <= freq[l] (-1: none up to freq[TSIZE])
ScanUp(g, k, c) == FirstNotBelow(g, k, c + 2, TSIZE)

\* Variant of the exchange below that leaves the second child of the
\* subtree moved to l with its old parent
ExchangeOneChild(g1, c, l, k) ==
    LET i == g1.son[c]
        j == g1.son[l]
        g2 == [g1 EXCEPT !.freq[c] = g1.freq[l], !.freq[l] = k]
        g3 == [g2 EXCEPT !.parent[i] = l]
        g4 == IF j < TSIZE
              THEN [g3 EXCEPT !.parent[j] = c, !.parent[j + 1] = c]
              ELSE [g3 EXCEPT !.parent[j] = c]
    IN  [g4 EXCEPT !.son[l] = i, !.son[c] = j]

\* Variant of the exchange below that moves the subtrees and leaves the
\* frequency of slot c as it is
ExchangeKeepFreq(g1, c, l, k) ==
    LET i == g1.son[c]
        j == g1.son[l]
        g2 == [g1 EXCEPT !.freq[l] = k]
        g3 == IF i < TSIZE
              THEN [g2 EXCEPT !.parent[i] = l, !.parent[i + 1] = l]
              ELSE [g2 EXCEPT !.parent[i] = l]
        g4 == IF j < TSIZE
              THEN [g3 EXCEPT !.parent[j] = c, !.parent[j + 1] = c]
              ELSE [g3 EXCEPT !.parent[j] = c]
    IN  [g4 EXCEPT !.son[l] = i, !.son[c] = j]

\* lines 201-210: slot c, whose frequency has become k, changes places with
\* slot l
Exchange(g1, c, l, k) ==
    LET i == g1.son[c]
        j == g1.son[l]
        \* freq[c] = freq[--l]; freq[l] = k;
        g2 == [g1 EXCEPT !.freq[c] = g1.freq[l], !.freq[l] = k]
        \* parent[i = son[c]] = l; if(i < TSIZE) parent[i+1] = l;
        g3 == IF i < TSIZE
              THEN [g2 EXCEPT !.parent[i] = l, !.parent[i + 1] = l]
              ELSE [g2 EXCEPT !.parent[i] = l]
        \* parent[j = son[l]] = c; son[l] = i;
        \* if(j < TSIZE) parent[j+1] = c; son[c] = j;
        g4 == IF j < TSIZE
              THEN [g3 EXCEPT !.parent[j] = c, !.parent[j + 1] = c]
              ELSE [g3 EXCEPT !.parent[j] = c]
    IN  [g4 EXCEPT !.son[l] = i, !.son[c] = j]

RECURSIVE UpdateLoop(_, _)
\* do { ... } while(c = parent[c]); (lines 197-213) from slot c
UpdateLoop(g, c) ==
    LET k == g.freq[c] + 1
    IN  Only({
          IF k > g1.freq[c + 1]
          THEN Only({
                 LET l == s - 1
                 IN  IF s = -1 THEN [g1 EXCEPT !.fault = "load"]
                     \* c = l; then while(c = parent[c])
                     ELSE Only({ IF g5.parent[l] # 0
                                 THEN UpdateLoop(g5, g5.parent[l])
                                 ELSE g5 :
                                 g5 \in { Exchange(g1, c, l, k) } }) :
                 s \in { ScanUp(g1, k, c) } })
          ELSE IF g1.parent[c] # 0 THEN UpdateLoop(g1, g1.parent[c]) ELSE g1 :
          g1 \in { [g EXCEPT !.freq[c] = k] } })

\* update(c).  A symbol outside 0..N_CHAR-1 makes parent[c+TSIZE] a load
\* outside parent, after which the function walks and rewrites the tree
\* from a slot number that is none: the run is stopped there.
update(m, c) ==
    Only({ IF c < 0 \/ c >= N_CHAR
           THEN [r EXCEPT !.fault = "load"]
           ELSE UpdateLoop(r, r.parent[c + TSIZE]) :
           r \in { IF RebuildDue(m)
                   THEN Rebuild([m EXCEPT !.obs.rootAtUpdate = m.freq[ROOT]])
                   ELSE [m EXCEPT !.obs.rootAtUpdate = m.freq[ROOT]] } })

\* ---- GetChar, GetBit, GetByte (lines 216-245) ----

\* GetChar: fgetc(fpi); at the end of the input the result is 0 and Eof is
\* set to 255
GetChar(m) ==
    LET o == [m.obs EXCEPT !.nGetChar = @ + 1,
                           !.nAfterEof = @ + (IF m.Eof # 0 THEN 1 ELSE 0)]
    IN  IF m.fpos < Len(file)
        THEN [m EXCEPT !.ret = file[m.fpos + 1], !.fpos = @ + 1, !.obs = o]
        ELSE [m EXCEPT !.ret = 0, !.Eof = 255,
                       !.obs = [o EXCEPT !.nEofRead = @ + 1]]

\* t = Bitbuff >> 15; Bitbuff <<= 1; on the 32-bit unsigned Bitbuff
TakeBit(m) ==
    [m EXCEPT !.ret = Shr32(m.Bitbuff, 15), !.Bitbuff = Shl32(m.Bitbuff, 1)]

GetBit(m) ==
    IF m.Bits = 0
    THEN Only({ TakeBit([c EXCEPT
                           !.Bitbuff = OrLow(c.Bitbuff, c.ret * Pow2(8)),
                           !.Bits = 7,
                           !.obs.nGetBit = @ + 1]) :
                c \in { GetChar(m) } })
    ELSE TakeBit([m EXCEPT !.Bits = @ - 1, !.obs.nGetBit = @ + 1])

GetByte(m) ==
    Only({ [m1 EXCEPT !.ret = Shr32(m1.Bitbuff, 8),
                      !.Bitbuff = Shl32(m1.Bitbuff, 8),
                      !.obs.nGetByte = @ + 1] :
           m1 \in { IF m.Bits < 8
                    THEN Only({ [c EXCEPT !.Bitbuff =
                                   OrLow(c.Bitbuff, c.ret * Pow2(8 - c.Bits))] :
                                c \in { GetChar(m) } })
                    ELSE [m EXCEPT !.Bits = @ - 8] } })

\* ---- loads that may fall outside their array ----

\* A load at index x of an array of n elements, on behalf of machine m: the
\* element inside the array; outside it the process dies (m.wild = Trap) or
\* the load returns the value m.wild.  The result is m with ret the value
\* loaded, or with fault set.
Load(m, arr, n, x, wildValue) ==
    IF x < n THEN [m EXCEPT !.ret = arr[x]]
    ELSE IF m.wild = Trap THEN [m EXCEPT !.fault = "load"]
    ELSE [m EXCEPT !.ret = wildValue, !.obs.nWild = @ + 1]

\* ---- DecodeChar (lines 247-253) ----

RECURSIVE DecodeWalk(_, _)
\* while((c = son[c]) < TSIZE) c += GetBit();  entered with c the slot
\* whose son is loaded next; ends with ret = the son that is >= TSIZE
DecodeWalk(m, c) ==
    Only({ IF s.fault # "" THEN s
           ELSE IF s.ret < TSIZE
           THEN Only({ DecodeWalk(b, s.ret + b.ret) : b \in { GetBit(s) } })
           ELSE s :
           s \in { Load(m, m.son, TSIZE, c, m.wild) } })

\* Variant of DecodeChar below that rebuilds a full tree before the walk
DecodeCharRebuildFirst(m) ==
    Only({ Only({ IF w.fault # "" THEN w
                  ELSE [update(w, w.ret - TSIZE) EXCEPT
                           !.ret = w.ret - TSIZE,
                           !.obs.sym = w.ret - TSIZE] :
                  w \in { DecodeWalk([t EXCEPT !.obs.nDecodeChar = @ + 1,
                                               !.obs.walkRoot = t.freq[ROOT]],
                                     ROOT) } }) :
           t \in { IF RebuildDue(m) THEN Rebuild(m) ELSE m } })

DecodeChar(m) ==
    Only({ IF w.fault # "" THEN w
           ELSE [update(w, w.ret - TSIZE) EXCEPT !.ret = w.ret - TSIZE,
                                                 !.obs.sym = w.ret - TSIZE] :
           w \in { DecodeWalk([m EXCEPT !.obs.nDecodeChar = @ + 1,
                                        !.obs.walkRoot = m.freq[ROOT]],
                              ROOT) } })

\* ---- DecodePosition (lines 255-263) ----

RECURSIVE FoldBits(_, _)
\* while(--j) i = (i << 1) | GetBit();  n iterations on m, whose ret is i.
\* The only use of i after the loop is i & 0x3F (line 262) and GetBit
\* returns less than 2^17: i is kept modulo 2^30.
FoldBits(m, n) ==
    IF n <= 0 THEN m
    ELSE IF n = 1
    THEN Only({ [b EXCEPT !.ret = BitOr((m.ret * 2) % Pow2(30), b.ret)] :
                b \in { GetBit(m) } })
    ELSE Only({ IF h.fault # "" THEN h ELSE FoldBits(h, n - n \div 2) :
                h \in { FoldBits(m, n \div 2) } })

\* A length of 0 can only come from a load outside d_len; --j then wraps and
\* the loop runs 2^32 - 1 times: the run is stopped there.
DecodePosition(m) ==
    Only({
      LET i == b.ret
          lc == Load(b, d_code, 256, i, m.wild % U8)
          c == lc.ret * Pow2(6)
          lj == Load(lc, d_len, 16, Shr(i, 4), m.wild % U8)
      IN  IF lc.fault # "" THEN lc
          ELSE IF lj.fault # "" THEN lj
          ELSE IF lj.ret = 0 THEN [lj EXCEPT !.fault = "load"]
          ELSE Only({ [f EXCEPT !.ret = BitOr(BitAnd(f.ret, 63), c),
                                !.obs.posByte = i,
                                !.obs.pos = BitOr(BitAnd(f.ret, 63), c)] :
                      f \in { FoldBits([lj EXCEPT !.ret = i],
                                       lj.ret - 1) } }) :
      b \in { GetByte(m) } })

\* ---- getbyte (lines 276-305) ----

\* Variant of the test below that honours Eof in the non-string state only
EofFlaggedWhenIdle(m) == m.Eof # 0 /\ m.GBstate = 0

\* if(Eof) (line 284)
EofFlagged(m) == m.Eof # 0

\* Variant of the test below that lets one more byte through
MatchPendingInclusive(m) == m.GBk <= m.GBj

\* if(GBk < GBj) (line 298)
MatchPending(m) == m.GBk < m.GBj

\* Variant of the length below that counts from the first string symbol
MatchLengthFrom256(c) == c - 256 + THRESHOLD

\* GBj = c - 255 + THRESHOLD; (line 295), c >= 256
MatchLength(c) == c - 255 + THRESHOLD

\* Variant of the source index below without the - 1
MatchSourceAtDistance(r, pos) == (r - pos) % SBSIZE

\* GBi = (GBr - DecodePosition() - 1) & (SBSIZE-1); (line 294): the
\* subtraction wraps modulo 2^32, a multiple of SBSIZE
MatchSource(r, pos) == (r - pos - 1) % SBSIZE

\* ring_buff[GBr++] = c; GBr &= (SBSIZE-1); return c;
PushByte(m, c) ==
    [m EXCEPT !.ring_buff[m.GBr] = c,
              !.GBr = BitAnd(m.GBr + 1, SBSIZE - 1),
              !.ret = c]

\* ring_buff[GBr++] = c = ring_buff[(GBk++ + GBi) & (SBSIZE-1)]; ... return c;
CopyByte(m) ==
    LET c == m.ring_buff[BitAnd(m.GBk + m.GBi, SBSIZE - 1)]
    IN  PushByte([m EXCEPT !.GBk = @ + 1], c)

RECURSIVE StateMachine(_)
RECURSIVE Extract(_)

\* lines 298-303: the next byte of the string, or back to the non-string
\* state and round the loop again
Extract(m) ==
    IF MatchPending(m) THEN CopyByte(m)
    ELSE StateMachine([m EXCEPT !.GBstate = 0])

\* for(;;) { ... } (lines 283-304)
StateMachine(m) ==
    IF EofFlagged(m) THEN [m EXCEPT !.ret = C_EOF]
    ELSE IF m.GBstate = 0
    THEN Only({
           IF d.fault # "" THEN d
           ELSE IF d.ret < 256 THEN PushByte(d, d.ret)
           ELSE Only({ IF p.fault # "" THEN p
                       ELSE Extract([p EXCEPT
                               !.GBi = MatchSource(p.GBr, p.ret),
                               !.GBj = MatchLength(d.ret),
                               !.GBk = 0]) :
                       p \in { DecodePosition([d EXCEPT !.GBstate = 255]) } }) :
           d \in { DecodeChar(m) } })
    ELSE Extract(m)

\* getbyte: --GBcheck; without compression getc(fpi), else the state machine
getbyte(m) ==
    LET m0 == [m EXCEPT !.GBcheck = Dec32(@)]
    IN  IF m0.Advcomp = 0
        THEN IF m0.fpos < Len(file)
             THEN [m0 EXCEPT !.ret = file[m0.fpos + 1], !.fpos = @ + 1,
                             !.obs.nRaw = @ + 1]
             ELSE [m0 EXCEPT !.ret = C_EOF, !.obs.nRaw = @ + 1]
        ELSE StateMachine(m0)


\* ------------------------------------------------------------------------
\* The globals as a machine record and back
\* ------------------------------------------------------------------------
Machine(w) ==
    [ parent |-> parent, son |-> son, freq |-> freq, Bits |-> Bits,
      Bitbuff |-> Bitbuff, GBcheck |-> GBcheck, GBr |-> GBr, GBi |-> GBi,
      GBj |-> GBj, GBk |-> GBk, GBstate |-> GBstate, Eof |-> Eof,
      Advcomp |-> Advcomp, ring_buff |-> ring_buff,
      fpos |-> fpos, ret |-> 0, fault |-> "", wild |-> w,
      obs |-> [NoObs EXCEPT !.eofAtEntry = Eof, !.stateAtEntry = GBstate,
                            !.emitted = obs.emitted, !.dist = obs.dist] ]

SetGlobals(r) ==
    /\ parent' = r.parent
    /\ son' = r.son
    /\ freq' = r.freq
    /\ Bits' = r.Bits
    /\ Bitbuff' = r.Bitbuff
    /\ GBcheck' = r.GBcheck
    /\ GBr' = r.GBr
    /\ GBi' = r.GBi
    /\ GBj' = r.GBj
    /\ GBk' = r.GBk
    /\ GBstate' = r.GBstate
    /\ Eof' = r.Eof
    /\ Advcomp' = r.Advcomp
    /\ ring_buff' = r.ring_buff

\* ------------------------------------------------------------------------
\* main (lines 338-505): the converter's own state
\* ------------------------------------------------------------------------
VARIABLES
    \* Header.Sig, Thead.Tsectors, the sector loop's i, Shead.Ssize,
    \* Shead.Sflags, Dhead.Dmethod
    Sig, Tsectors, sec, Ssize, Sflags, Dmethod,
    \* the sector buffer: its size and its bytes, numbered from 0
    sector_size, sector_data,
    \* case 2: the write offset p - sector_data, remain, blocktype, count,
    \* frag_size, the bytes read into fragment, the copy loop's i
    p, remain, blocktype, count, frag_size, fragment, fi,
    \* fpo: the bytes written to the output file
    out,
    \* the message of the error() call that ended the run, or ""
    err,
    \* bookkeeping about the sector and the block being decoded: payload
    \* bytes taken from fpi by fread, length of out when the sector began,
    \* one past the highest buffer offset stored to, malloc's fill, and for
    \* the current block its kind, its count byte, fpos, remain and p when
    \* it began, the copies made, whether it ran to its end, whether its
    \* fragment went past the fragment array, and whether that reached the
    \* return address of main
    gh

mainVars == << Sig, Tsectors, sec, Ssize, Sflags, Dmethod, sector_size,
               sector_data, p, remain, blocktype, count, frag_size, fragment,
               fi, out, err, gh >>

\* Header.Sig values (lines 363, 369)
SIG_NORMAL == 17492
SIG_ADVANCED == 17508

\* sizeof(Header), sizeof(Thead), sizeof(Shead), sizeof(Dhead) under
\* #pragma pack(1), and sizeof(fragment)
HEADER_BYTES == 12
THEAD_BYTES == 4
SHEAD_BYTES == 6
DHEAD_BYTES == 3
FRAGMENT_BYTES == 256

\* the end of disk marker in Thead.Tsectors (line 390)
END_OF_DISK == 255

\* fprintf(fpo, "IMD 1.20 %s\r\n", VERSION) as character codes
IMDHeader == << 73, 77, 68, 32, 49, 46, 50, 48, 32, 49, 46, 50, 48, 13, 10 >>

NoGh == [ payloadRaw |-> 0, outMark |-> 0, hiWrite |-> 0, fill |-> 0,
          kind |-> "", n |-> 0, pos0 |-> 0, R0 |-> 0, p0 |-> 0,
          copies |-> 0, done |-> FALSE, overrun |-> FALSE,
          smashed |-> FALSE ]

\* fread(buf, size, 1, fpi) with the stream at pos: the bytes that reach
\* buf, the new position, and whether the one item was read in full (an
\* item of size 0 is never read: fread returns 0)
fread(pos, size) ==
    LET n == Min(size, Len(file) - pos)
    IN  [ ok |-> size > 0 /\ n = size,
          data |-> SubSeq(file, pos + 1, pos + n),
          pos |-> pos + n ]

\* an unsigned short in the memory of a little-endian host
Word16(lo, hi) == lo + U8 * hi

\* the k-th byte of what fread stored in a struct, or the byte that was
\* there before when fewer bytes arrived
Field(data, k, old) == IF Len(data) >= k THEN data[k] ELSE old

\* bytes stored to buf from offset at on (fread into the buffer, memcpy)
Store(buf, at, data) ==
    Array([ i \in DOMAIN buf |->
              IF at <= i /\ i < at + Len(data) THEN data[i - at + 1]
              ELSE buf[i] ])

\* one past the highest offset stored to, after a store of n bytes at at
High(h, at, n) == IF n > 0 /\ at + n > h THEN at + n ELSE h

\* error(): the message, then fclose of both files and exit(1)
error(msg) == pc' = "error" /\ err' = msg

\* Variant of the test below that lets size code 7 through
SizeCodeValidUpTo7(s) == s <= 7

\* if (Shead.Ssize > 6) error(...)  (line 399)
SizeCodeValid(s) == s <= 6

\* unsigned sector_size = 128 << Shead.Ssize  (line 402)
SectorBytes(s) == 128 * Pow2(s)

\* if (!(Shead.Sflags & SEC_NODAT))  (line 408)
HasData(f) == BitAnd(f, SEC_NODAT) = 0

\* the cases of switch (Dhead.Dmethod) other than default
MethodKnown(m) == m \in {0, 1, 2}

\* malloc(sector_size): what the fresh block may hold
MallocFill == { 0, 205 }

\* the end of the sector loop's body: i++ and the test i < Thead.Tsectors
NextSector ==
    /\ sec' = sec + 1
    /\ pc' = IF sec + 1 < Tsectors THEN "sector" ELSE "track"

\* Variant of the bound below that counts bytes where the loop counts pairs
RleLimitBytes(cnt, T) == Min(cnt, T)

\* i < count * 2 && i < sector_size  (line 439): the bound of the loop
RleLimit(cnt, T) == Min(cnt * 2, T)

\* for (i = 0; i < count * 2 && i < sector_size; i += 2)
\*     { sector_data[i] = b1; sector_data[i+1] = b2; }
RleFill(buf, cnt, b1, b2, T) ==
    Array([ i \in DOMAIN buf |->
              IF i - (i % 2) < RleLimit(cnt, T)
              THEN (IF i % 2 = 0 THEN b1 ELSE b2)
              ELSE buf[i] ])

\* one past the last offset that loop stores to
RleHigh(cnt, T) ==
    LET lim == RleLimit(cnt, T)
    IN  IF lim = 0 THEN 0 ELSE lim + (lim % 2)

\* if (count > remain) count = remain;  (line 462)
Clamp(n, rem) == IF n > rem THEN rem ELSE n

\* 2^31 is one more than TLC's largest integer, which stands for it here:
\* it is only ever a number of bytes to read or to have left, and neither
\* a file nor a sector is that long
TwoTo31 == 2147483647

\* 1 << s for s in 0..31 on 32 bits
Shl1(s) == IF s < 31 THEN Pow2(s) ELSE TwoTo31

\* unsigned frag_size = 1 << blocktype  (line 470).  The shift is defined
\* for a blocktype below 31.  From 31 on it is undefined: the builds at
\* hand shift by blocktype modulo 32, others give 0.
ShiftLeft1(t) ==
    IF t < 31 THEN { Pow2(t) } ELSE { Shl1(t % 32), 0 }

\* What a fragment longer than the fragment array does to the frame of
\* main: nothing that matters; the death of the process at once; the
\* return address overwritten, so that the process dies when main returns;
\* or, with that, the locals next to the array overwritten with the bytes
\* of the fragment
OverrunOutcomes == { "intact", "kill", "late", "clobber" }

\* the word that the four bytes after the first FRAGMENT_BYTES of a
\* fragment leave in a local of 32 bits they overwrite
ClobberWord(data) ==
    data[FRAGMENT_BYTES + 1] + U8 * data[FRAGMENT_BYTES + 2]
    + H16 * data[FRAGMENT_BYTES + 3] + H16 * U8 * data[FRAGMENT_BYTES + 4]

\* the outcomes open to a fragment of this many bytes
Outcomes(data) ==
    IF Len(data) <= FRAGMENT_BYTES THEN { "intact" }
    ELSE IF Len(data) < FRAGMENT_BYTES + 4 THEN { "intact", "kill" }
    ELSE OverrunOutcomes

\* the buffer pointer was overwritten: the buffer is out of reach
Lost(buf) == DOMAIN buf = {}

\* ---- the steps of main ----

\* lines 357-379: the TD0 header, its signature, init_decompress for an
\* advanced-compression signature, the output file and its first line
ReadHeader ==
    /\ pc = "start"
    /\ LET h == fread(fpos, HEADER_BYTES)
           s == Word16(Field(h.data, 1, Sig % U8), Field(h.data, 2, Sig \div U8))
       IN  /\ fpos' = h.pos
           /\ Sig' = s
           /\ IF ~h.ok
              THEN error("Error reading TD0 header")
                   /\ UNCHANGED << decVars, out >>
              ELSE IF s # SIG_NORMAL /\ s # SIG_ADVANCED
              THEN error("Invalid TD0 header signature")
                   /\ UNCHANGED << decVars, out >>
              ELSE /\ IF s = SIG_ADVANCED
                      THEN \E g \in { init_decompress(Machine(Trap)) } :
                              SetGlobals(g)
                      ELSE UNCHANGED decVars
                   /\ out' = IMDHeader
                   /\ pc' = "track"
                   /\ err' = err
    /\ UNCHANGED << file, fault, gbRet, obs, ncalls, Tsectors, sec, Ssize,
                    Sflags, Dmethod, sector_size, sector_data, p, remain,
                    blocktype, count, frag_size, fragment, fi, gh >>

\* lines 382-393: the track header; the end of the file or the end of disk
\* marker ends the conversion (lines 498-504), and main returns
ReadTrack ==
    /\ pc = "track"
    /\ LET h == fread(fpos, THEAD_BYTES)
           n == Field(h.data, 1, Tsectors)
       IN  /\ fpos' = h.pos
           /\ Tsectors' = n
           /\ IF ~h.ok \/ n = END_OF_DISK
              THEN /\ pc' = IF gh.smashed THEN "killed" ELSE "done"
                   /\ sec' = sec
              ELSE /\ sec' = 0
                   /\ pc' = IF 0 < n THEN "sector" ELSE "track"
    /\ UNCHANGED << decVars, file, fault, gbRet, obs, ncalls, Sig, Ssize,
                    Sflags, Dmethod, sector_size, sector_data, p, remain,
                    blocktype, count, frag_size, fragment, fi, out, err, gh >>

\* lines 394-428, 446-449, 487-489: the sector header, the size check, the
\* data header, malloc and the switch on the method
ReadSector ==
    /\ pc = "sector"
    /\ LET sh == fread(fpos, SHEAD_BYTES)
           size == Field(sh.data, 4, Ssize)
           flags == Field(sh.data, 5, Sflags)
           dh == fread(sh.pos, DHEAD_BYTES)
           method == Field(dh.data, 3, Dmethod)
           T == SectorBytes(size)
           g == [NoGh EXCEPT !.payloadRaw = gh.payloadRaw,
                             !.smashed = gh.smashed,
                             !.outMark = Len(out)]
       IN  /\ Ssize' = size
           /\ Sflags' = flags
           /\ IF ~sh.ok
              THEN /\ error("Error reading sector header")
                   /\ fpos' = sh.pos /\ gh' = g
                   /\ UNCHANGED << sec, Dmethod, sector_size, sector_data,
                                   p, remain >>
              ELSE IF ~SizeCodeValid(size)
              THEN /\ error("Invalid sector size")
                   /\ fpos' = sh.pos /\ gh' = g
                   /\ UNCHANGED << sec, Dmethod, sector_size, sector_data,
                                   p, remain >>
              ELSE IF ~HasData(flags)
              THEN /\ NextSector
                   /\ fpos' = sh.pos /\ gh' = g
                   /\ sector_size' = T
                   /\ UNCHANGED << Dmethod, sector_data, p, remain, err >>
              ELSE IF ~dh.ok
              THEN /\ error("Error reading data header")
                   /\ fpos' = dh.pos /\ gh' = g
                   /\ sector_size' = T
                   /\ UNCHANGED << sec, Dmethod, sector_data, p, remain >>
              ELSE /\ fpos' = dh.pos
                   /\ sector_size' = T
                   /\ Dmethod' = method
                   /\ \E fill \in MallocFill :
                         /\ sector_data' = Array([i \in 0..(T - 1) |-> fill])
                         /\ gh' = [g EXCEPT !.fill = fill]
                   /\ IF method = 2
                      THEN p' = 0 /\ remain' = T
                      ELSE UNCHANGED << p, remain >>
                   /\ IF MethodKnown(method)
                      THEN /\ pc' = CASE method = 0 -> "m0"
                                      [] method = 1 -> "m1"
                                      [] OTHER -> "m2"
                           /\ err' = err
                      ELSE error("Unknown compression method")
                   /\ sec' = sec
    /\ UNCHANGED << decVars, file, fault, gbRet, obs, ncalls, Sig, Tsectors,
                    blocktype, count, frag_size, fragment, fi, out >>

\* case 0 (lines 424-429): the sector as it stands in the file
RawSector ==
    /\ pc = "m0"
    /\ \E r \in { fread(fpos, sector_size) } :
           /\ fpos' = r.pos
           /\ sector_data' = Store(sector_data, 0, r.data)
           /\ gh' = [gh EXCEPT !.payloadRaw = @ + Len(r.data),
                               !.hiWrite = High(@, 0, Len(r.data))]
           /\ IF r.ok THEN pc' = "write" /\ err' = err
              ELSE error("Error reading raw sector data")
    /\ UNCHANGED << decVars, file, fault, gbRet, obs, ncalls, Sig, Tsectors,
                    sec, Ssize, Sflags, Dmethod, sector_size, p, remain,
                    blocktype, count, frag_size, fragment, fi, out >>

\* case 1 (lines 430-445): a count and two bytes, then the pair repeated
RleSector ==
    /\ pc = "m1"
    /\ \E c \in { fread(fpos, 2) } :
       \E b1 \in { fread(c.pos, 1) } :
       \E b2 \in { fread(b1.pos, 1) } :
       \E last \in { IF ~c.ok THEN c ELSE IF ~b1.ok THEN b1 ELSE b2 } :
       \E cnt \in { IF c.ok THEN Word16(c.data[1], c.data[2]) ELSE 0 } :
           /\ fpos' = last.pos
           /\ gh' = [gh EXCEPT
                       !.payloadRaw = @ + (last.pos - fpos),
                       !.pos0 = fpos,
                       !.hiWrite = IF last.ok
                                   THEN High(@, 0, RleHigh(cnt, sector_size))
                                   ELSE @]
           /\ IF last.ok
              THEN /\ \E v1 \in { b1.data[1] }, v2 \in { b2.data[1] } :
                        sector_data' = RleFill(sector_data, cnt, v1, v2,
                                               sector_size)
                   /\ pc' = "write" /\ err' = err
              ELSE /\ error("Error reading RLE data")
                   /\ sector_data' = sector_data
    /\ UNCHANGED << decVars, file, fault, gbRet, obs, ncalls, Sig, Tsectors,
                    sec, Ssize, Sflags, Dmethod, sector_size, p, remain,
                    blocktype, count, frag_size, fragment, fi, out >>

\* the process dies at an access outside its memory
Kill == pc' = "killed" /\ err' = err

\* while (remain > 0) is over, or goes round again (lines 450, 485)
AfterBlock(rem) == IF rem > 0 THEN "m2" ELSE "write"

\* lines 451-455: the block type
ReadBlockType ==
    /\ pc = "m2"
    /\ LET t == fread(fpos, 1)
       IN  /\ fpos' = t.pos
           /\ gh' = [gh EXCEPT !.payloadRaw = @ + Len(t.data),
                               !.kind = "", !.n = 0, !.pos0 = fpos,
                               !.R0 = remain, !.p0 = p, !.copies = 0,
                               !.done = FALSE]
           /\ IF ~t.ok
              THEN error("Error reading RLE block type")
                   /\ blocktype' = blocktype
              ELSE /\ blocktype' = t.data[1]
                   /\ pc' = IF t.data[1] = 0 THEN "literal" ELSE "fragment"
                   /\ err' = err
    /\ UNCHANGED << decVars, file, fault, gbRet, obs, ncalls, Sig, Tsectors,
                    sec, Ssize, Sflags, Dmethod, sector_size, sector_data, p,
                    remain, count, frag_size, fragment, fi, out >>

\* lines 456-468: a literal block
LiteralBlock ==
    /\ pc = "literal"
    /\ \E c \in { fread(fpos, 1) } :
       \E d \in { IF c.ok THEN fread(c.pos, Clamp(c.data[1], remain))
                  ELSE c } :
       LET n == Clamp(c.data[1], remain)
           g == [gh EXCEPT !.kind = "literal"]
       IN  IF ~c.ok
           THEN /\ error("Error reading RLE block count")
                /\ fpos' = c.pos
                /\ gh' = g
                /\ UNCHANGED << sector_data, p, remain >>
           ELSE /\ fpos' = d.pos
                /\ IF Lost(sector_data) /\ Len(d.data) > 0
                   THEN Kill /\ gh' = g
                        /\ UNCHANGED << sector_data, p, remain >>
                   ELSE /\ sector_data' = Store(sector_data, p, d.data)
                        /\ gh' = [g EXCEPT
                                    !.n = c.data[1],
                                    !.payloadRaw = @ + 1 + Len(d.data),
                                    !.hiWrite = High(@, p, Len(d.data)),
                                    !.done = d.ok]
                        /\ IF ~d.ok
                           THEN error("Error reading RLE block data")
                                /\ UNCHANGED << p, remain >>
                           ELSE /\ p' = p + n
                                /\ remain' = remain - n
                                /\ pc' = AfterBlock(remain - n)
                                /\ err' = err
    /\ UNCHANGED << decVars, file, fault, gbRet, obs, ncalls, Sig, Tsectors,
                    sec, Ssize, Sflags, Dmethod, sector_size, blocktype,
                    count, frag_size, fragment, fi, out >>

\* lines 469-477: the count and the fragment of a fragment block.  fread
\* stores the whole fragment from fragment[0] on; what is past the end of
\* the array lands in whatever follows it in the frame.
ReadFragment ==
    /\ pc = "fragment"
    /\ \E fs \in ShiftLeft1(blocktype) :
         \E c \in { fread(fpos, 1) } :
         \E f \in { fread(c.pos, fs) } :
         LET g == [gh EXCEPT !.kind = "fragment"]
         IN  /\ frag_size' = fs
             /\ IF ~c.ok
                THEN /\ error("Error reading RLE fragment")
                     /\ fpos' = c.pos
                     /\ gh' = g
                     /\ UNCHANGED << count, fragment, fi, p, remain,
                                     sector_size, sector_data >>
                ELSE /\ fpos' = f.pos
                     /\ fragment' = f.data
                     /\ fi' = 0
                     /\ \E o \in Outcomes(f.data) :
                          /\ gh' = [g EXCEPT
                                      !.n = c.data[1],
                                      !.payloadRaw = @ + 1 + Len(f.data),
                                      !.overrun = Len(f.data) > FRAGMENT_BYTES,
                                      !.smashed = @ \/ o \in {"late", "clobber"}]
                          /\ IF o = "clobber"
                             THEN /\ count' = ClobberWord(f.data) % U8
                                  /\ p' = ClobberWord(f.data)
                                  /\ remain' = ClobberWord(f.data)
                                  /\ sector_size' = ClobberWord(f.data)
                                  /\ sector_data' = << >>
                             ELSE /\ count' = c.data[1]
                                  /\ UNCHANGED << p, remain, sector_size,
                                                  sector_data >>
                          /\ IF o = "kill" THEN Kill
                             ELSE IF ~f.ok
                             THEN error("Error reading RLE fragment")
                             ELSE pc' = "copy" /\ err' = err
    /\ UNCHANGED << decVars, file, fault, gbRet, obs, ncalls, Sig, Tsectors,
                    sec, Ssize, Sflags, Dmethod, blocktype, out >>

\* lines 478-482: one round of the copy loop, or its end
CopyFragment ==
    /\ pc = "copy"
    /\ IF fi < count /\ remain >= frag_size
       THEN IF Lost(sector_data)
            THEN Kill /\ UNCHANGED << sector_data, p, remain, fi, gh >>
            ELSE /\ sector_data' = Store(sector_data, p, fragment)
                 /\ p' = p + frag_size
                 /\ remain' = remain - frag_size
                 /\ fi' = fi + 1
                 /\ gh' = [gh EXCEPT !.copies = @ + 1,
                                     !.hiWrite = High(@, p, frag_size)]
                 /\ UNCHANGED << pc, err >>
       ELSE /\ pc' = AfterBlock(remain)
            /\ gh' = [gh EXCEPT !.done = TRUE]
            /\ UNCHANGED << sector_data, p, remain, fi, err >>
    /\ UNCHANGED << decVars, file, fpos, fault, gbRet, obs, ncalls, Sig,
                    Tsectors, sec, Ssize, Sflags, Dmethod, sector_size,
                    blocktype, count, frag_size, fragment, out >>

\* lines 492-494: fwrite(sector_data, sector_size, 1, fpo), free, and on to
\* the next sector
WriteSector ==
    /\ pc = "write"
    /\ IF Lost(sector_data) /\ sector_size > 0
       THEN Kill /\ UNCHANGED << out, sec >>
       ELSE /\ out' = out \o [i \in 1..sector_size |-> sector_data[i - 1]]
            /\ NextSector
            /\ err' = err
    /\ UNCHANGED << decVars, file, fpos, fault, gbRet, obs, ncalls, Sig,
                    Tsectors, Ssize, Sflags, Dmethod, sector_size,
                    sector_data, p, remain, blocktype, count, frag_size,
                    fragment, fi, gh >>

\* ------------------------------------------------------------------------
\* Spec: the conversion of one container file
\* ------------------------------------------------------------------------

\* the layout of the file as main reads it (lines 79-118)
Bytes(n, v) == [i \in 1..n |-> v]
Ramp(n) == [i \in 1..n |-> 1 + (i % 199)]
FileHeader(sig) == << sig % U8, sig \div U8 >> \o Bytes(HEADER_BYTES - 2, 0)
TrackHeader(n) == << n, 0, 0, 0 >>
SectorHeader(k, flags) == << 0, 0, 1, k, flags, 0 >>
DataHeader(method) == << 0, 0, method >>
Sector(k, method, payload) ==
    SectorHeader(k, 0) \o DataHeader(method) \o payload
Literal(n, data) == << 0, n >> \o data
Repeat(t, n, data) == << t, n >> \o data

\* Sectors of every method, with payloads that fit, that end early, and
\* that carry the block types and counts the decoders branch on
RawSectors ==
    { Sector(0, 0, Ramp(128)), Sector(0, 0, Ramp(100)) }

RleSectors ==
    { Sector(0, 1, << c, 0, 170, 85 >>) : c \in {0, 3, 64, 65} }
    \cup { Sector(0, 1, << 255, 255, 170, 85 >>),
           Sector(1, 1, << 100, 0, 170, 85 >>),
           Sector(6, 1, << 0, 16, 170, 85 >>),
           Sector(6, 1, << 255, 255, 170, 85 >>),
           Sector(0, 1, << 3, 0, 170 >>) }

BlockSectors ==
    { Sector(0, 2, Literal(128, Ramp(128))),
      Sector(0, 2, Literal(3, << 1, 2, 3 >>) \o Repeat(1, 2, << 255, 238 >>)
                   \o Repeat(6, 255, Ramp(64)) \o Literal(255, Ramp(57))),
      Sector(0, 2, Literal(0, << >>) \o Literal(128, Ramp(128))),
      Sector(0, 2, Repeat(1, 0, << 9, 9 >>) \o Repeat(7, 1, Ramp(128))),
      Sector(0, 2, Repeat(8, 1, Ramp(256)) \o Literal(128, Ramp(128))),
      Sector(0, 2, Repeat(32, 2, << 65 >>) \o Literal(126, Ramp(126))),
      Sector(3, 2, Repeat(10, 1, Bytes(1024, 0))),
      Sector(0, 2, Repeat(9, 1, Bytes(300, 0))),
      Sector(0, 2, Literal(5, << 1, 2 >>)),
      Sector(0, 2, Repeat(2, 1, << 1, 2 >>)),
      Sector(0, 2, Literal(100, Ramp(100))),
      Sector(0, 2, << 0 >>),
      Sector(0, 2, << 3 >>) }

OddSectors ==
    { Sector(0, 3, << >>), Sector(0, 255, Ramp(128)),
      SectorHeader(7, 0), Sector(7, 0, Ramp(128)),
      SectorHeader(0, SEC_NODAT), SectorHeader(7, SEC_NODAT),
      << 0, 0, 1 >>, SectorHeader(0, 0) \o << 0 >> }

FirstSectors == RawSectors \cup RleSectors \cup BlockSectors \cup OddSectors

\* the sectors that may follow the first one of the track
MoreSectors ==
    { Sector(0, 0, Ramp(128)), Sector(0, 3, << >>), SectorHeader(7, 0) }

\* at most MaxSectors sectors in the track
MaxSectors == 2

RECURSIVE Following(_)
\* the runs of up to n sectors out of MoreSectors, each with its length
Following(n) ==
    IF n = 0 THEN { [n |-> 0, bytes |-> << >>] }
    ELSE LET shorter == Following(n - 1)
         IN  shorter \cup { [n |-> r.n + 1, bytes |-> s \o r.bytes] :
                              s \in MoreSectors, r \in shorter }

EndMarker == TrackHeader(END_OF_DISK)

\* one track, closed by the end of disk marker, or by the end of the file
Tracks ==
    { TrackHeader(1 + r.n) \o s \o r.bytes \o EndMarker :
        s \in FirstSectors, r \in Following(MaxSectors - 1) }
    \cup { TrackHeader(1) \o s : s \in FirstSectors }
    \cup { TrackHeader(0) \o EndMarker, << >>, << 1, 0 >> }

Containers ==
    { FileHeader(sig) \o t : sig \in {SIG_NORMAL, SIG_ADVANCED}, t \in Tracks }
    \cup { FileHeader(25716), << 84, 68, 0 >> }

GlobalsAre(g) ==
    /\ parent = g.parent
    /\ son = g.son
    /\ freq = g.freq
    /\ Bits = g.Bits
    /\ Bitbuff = g.Bitbuff
    /\ GBcheck = g.GBcheck
    /\ GBr = g.GBr
    /\ GBi = g.GBi
    /\ GBj = g.GBj
    /\ GBk = g.GBk
    /\ GBstate = g.GBstate
    /\ Eof = g.Eof
    /\ Advcomp = g.Advcomp
    /\ ring_buff = g.ring_buff

\* main has read nothing yet
MainAtStart ==
    /\ Sig = 0 /\ Tsectors = 0 /\ sec = 0 /\ Ssize = 0 /\ Sflags = 0
    /\ Dmethod = 0 /\ sector_size = 0 /\ sector_data = << >>
    /\ p = 0 /\ remain = 0 /\ blocktype = 0 /\ count = 0 /\ frag_size = 0
    /\ fragment = << >> /\ fi = 0 /\ out = << >> /\ err = "" /\ gh = NoGh

Init ==
    /\ file \in Containers
    /\ fpos = 0
    /\ GlobalsAre(ZeroGlobals)
    /\ pc = "start"
    /\ fault = ""
    /\ gbRet = 0
    /\ obs = NoObs
    /\ ncalls = 0
    /\ MainAtStart

vars == << parent, son, freq, Bits, Bitbuff, GBcheck, GBr, GBi, GBj, GBk,
           GBstate, Eof, Advcomp, ring_buff, file, fpos, pc, fault, gbRet,
           obs, ncalls, Sig, Tsectors, sec, Ssize, Sflags, Dmethod,
           sector_size, sector_data, p, remain, blocktype, count, frag_size,
           fragment, fi, out, err, gh >>

Next ==
    \/ ReadHeader
    \/ ReadTrack
    \/ ReadSector
    \/ RawSector
    \/ RleSector
    \/ ReadBlockType
    \/ LiteralBlock
    \/ ReadFragment
    \/ CopyFragment
    \/ WriteSector

Spec == Init /\ [][Next]_vars

\* ------------------------------------------------------------------------
\* SpecGB: a caller of the decompressor.  The input is open at its first
\* byte; init_decompress has run (a compressed container) or not; the
\* caller then calls getbyte up to MaxCalls times.
\* ------------------------------------------------------------------------
MaxCalls == 62
MaxInput == 5

\* Streams whose second symbol starts a string: two zero bytes carry the
\* codes of the symbols 116 and 313, the next two the position
MatchStreams ==
    { << 0, 0, 29, 0 >>, << 0, 0, 29, 128 >>, << 0, 0, 30, 0 >>,
      << 0, 0, 255, 16 >>, << 0, 0, 255, 20 >>, << 0, 0, 255, 252 >> }

\* Input streams: runs of zero bytes, streams with one non-zero byte, and
\* the streams above
GBStreams ==
    { [i \in 1..n |-> 0] : n \in 0..MaxInput }
    \cup { [i \in 1..n |-> IF i = k THEN b ELSE 0] :
             n \in 1..MaxInput, k \in 1..MaxInput, b \in {1, 128} }
    \cup MatchStreams

InitGB ==
    /\ file \in GBStreams
    /\ fpos = 0
    /\ \E g \in { ZeroGlobals, init_decompress(ZeroGlobals) } : GlobalsAre(g)
    /\ pc = "caller"
    /\ fault = ""
    /\ gbRet = 0
    /\ obs = NoObs
    /\ ncalls = 0
    /\ MainAtStart

\* one call of getbyte by the caller
CallGetbyte ==
    /\ pc = "caller"
    /\ fault = ""
    /\ ncalls < MaxCalls
    /\ \E w \in Wild \cup {Trap} :
          \E r \in { getbyte(Machine(w)) } :
              /\ SetGlobals(r)
              /\ fpos' = r.fpos
              /\ fault' = r.fault
              /\ gbRet' = r.ret
              /\ obs' = [r.obs EXCEPT
                           !.fn = "getbyte",
                           !.dist = IF r.obs.pos # -1 THEN r.obs.pos ELSE @,
                           !.emitted = IF r.fault = "" /\ r.ret # C_EOF
                                       THEN Append(@, r.ret) ELSE @]
    /\ ncalls' = ncalls + 1
    /\ UNCHANGED << file, pc >>
    /\ UNCHANGED mainVars

NextGB == CallGetbyte

SpecGB == InitGB /\ [][NextGB]_vars

\* ------------------------------------------------------------------------
\* Properties of main, stated over Spec
\* ------------------------------------------------------------------------

\* C1: in a container with the advanced-compression signature, no byte of
\* a sector's payload is taken from the input file by fread: every one
\* comes through getbyte.
C1_PayloadThroughDecompressor ==
    Sig = SIG_ADVANCED => gh.payloadRaw = 0

\* a container with that signature converted to its end, its one sector of
\* 128 bytes taken from the file by fread
C1_Witness ==
    /\ Sig = SIG_ADVANCED /\ Advcomp # 0
    /\ pc = "done"
    /\ gh.payloadRaw >= 128
    /\ Len(out) = Len(IMDHeader) + 128

\* the blocks of a method-2 sector are being decoded, or have just been
InBlocks ==
    \/ pc \in {"m2", "literal", "fragment", "copy"}
    \/ pc = "write" /\ Dmethod = 2

\* C2: while a method-2 sector of T bytes is decoded, written + remain = T
\* with 0 <= remain <= T, no store lands at an offset of T or more, and
\* the decoding ends well only with remain = 0 and T bytes written.
C2_BlockAccounting ==
    InBlocks =>
        LET T == 128 * Pow2(Ssize)
        IN  /\ p + remain = T
            /\ 0 <= remain /\ remain <= T
            /\ gh.hiWrite <= T
            /\ pc = "write" => (remain = 0 /\ p = T)

\* a sector of 1024 bytes whose one block is a fragment of 1024 bytes: the
\* fragment has overwritten the locals, and the decoding ends with remain = 0
\* and nothing written
C2_Witness ==
    /\ pc = "write" /\ Dmethod = 2
    /\ Ssize = 3 /\ blocktype = 10 /\ gh.overrun
    /\ remain = 0 /\ p = 0 /\ gh.hiWrite = 0

\* C3: method 1 takes exactly 4 bytes (count low, count high, b1, b2) and
\* stores b1 at the even and b2 at the odd offsets below min(2 * count, T),
\* and stores nothing at that offset or above.
C3_Method1 ==
    (pc = "write" /\ Dmethod = 1) =>
        LET c == file[gh.pos0 + 1] + 256 * file[gh.pos0 + 2]
            b1 == file[gh.pos0 + 3]
            b2 == file[gh.pos0 + 4]
            T == 128 * Pow2(Ssize)
            lim == IF 2 * c < T THEN 2 * c ELSE T
        IN  /\ fpos = gh.pos0 + 4
            /\ gh.hiWrite = lim
            /\ DOMAIN sector_data = 0..(T - 1)
            /\ \A i \in 0..(T - 1) :
                  sector_data[i] = IF i >= lim THEN gh.fill
                                   ELSE IF i % 2 = 0 THEN b1 ELSE b2

\* a method-1 sector whose count asks for more than the sector holds
C3_Witness ==
    /\ pc = "write" /\ Dmethod = 1
    /\ 2 * (file[gh.pos0 + 1] + 256 * file[gh.pos0 + 2]) > 128 * Pow2(Ssize)
    /\ gh.hiWrite = 128 * Pow2(Ssize)

\* C4: a fragment block of type t with count byte n, begun with remain = R,
\* takes 2 + 2^t bytes and appends min(n, R div 2^t) copies of its 2^t
\* bytes, taking 2^t off remain for each; decoding then goes on with the
\* next block.  (A block of type 31 or more would take more bytes than a
\* file has: it cannot end well.)
C4_FragmentBlock ==
    (gh.kind = "fragment" /\ gh.done /\ pc \in {"m2", "write"}) =>
        /\ blocktype <= 30
        /\ LET fs == Pow2(blocktype)
               k == IF gh.n < gh.R0 \div fs THEN gh.n ELSE gh.R0 \div fs
           IN  /\ fpos = gh.pos0 + 2 + fs
               /\ gh.copies = k
               /\ remain = gh.R0 - k * fs
               /\ p = gh.p0 + k * fs
               /\ \A j \in 0..(k * fs - 1) :
                     sector_data[gh.p0 + j] = file[gh.pos0 + 3 + (j % fs)]

\* a block of type 32 that ended well: it took 3 bytes and appended 2
\* copies of 1 byte
C4_Witness ==
    /\ gh.kind = "fragment" /\ gh.done /\ pc = "m2"
    /\ blocktype = 32 /\ gh.n = 2
    /\ fpos = gh.pos0 + 3
    /\ gh.copies = 2 /\ remain = gh.R0 - 2

\* C5: a literal block with count byte n, begun with remain = R > 0, copies
\* the next min(n, R) bytes of the input in order and takes min(n, R) off
\* remain; it fails only when the input ends before those bytes, so a
\* count of 0 is no error.
C5_LiteralBlock ==
    LET m == IF gh.n < gh.R0 THEN gh.n ELSE gh.R0
    IN  /\ (gh.kind = "literal" /\ gh.done /\ pc \in {"m2", "write"}) =>
              /\ fpos = gh.pos0 + 2 + m
              /\ remain = gh.R0 - m
              /\ p = gh.p0 + m
              /\ \A j \in 0..(m - 1) :
                    sector_data[gh.p0 + j] = file[gh.pos0 + 3 + j]
        /\ (pc = "error" /\ err = "Error reading RLE block data") =>
              Len(file) - (gh.pos0 + 2) < m

\* the error exit at a literal block with a count of 0, with all the rest
\* of the sector still in the file
C5_Witness ==
    /\ pc = "error" /\ err = "Error reading RLE block data"
    /\ gh.kind = "literal" /\ gh.n = 0
    /\ Len(file) - fpos >= gh.R0

\* C6: a sector with a size code above 6, or with data of a method other
\* than 0, 1 and 2, ends in the error exit, and nothing of it has been
\* written to the output by then.
C6_BadSectorIsError ==
    (Ssize > 6 \/ (Sflags % 64 < 32 /\ Dmethod \notin {0, 1, 2})) =>
        (pc = "error" /\ Len(out) = gh.outMark)

\* the error exit at a sector of that kind that follows a sector already
\* written to the output
C6_Witness ==
    /\ pc = "error"
    /\ Ssize > 6 \/ Dmethod \notin {0, 1, 2}
    /\ Len(out) = gh.outMark
    /\ gh.outMark > Len(IMDHeader)

\* ------------------------------------------------------------------------
\* Properties of getbyte, stated over SpecGB.  gbRet and obs describe the
\* call that produced the current state (ncalls > 0).
\* ------------------------------------------------------------------------
Compressed == Advcomp # 0

\* the call that produced the current state returned to its caller
Returned == ncalls > 0 /\ fault = ""

\* C7: a getbyte call on a compressed container during which fgetc reported
\* the end of the input returns -1 from that very call.
C7_EofReturnedByDetectingCall ==
    (Compressed /\ Returned /\ obs.nEofRead > 0) => gbRet = C_EOF

\* the first call on an empty input: fgetc reported the end of the input,
\* and the call returned the byte 116
C7_Witness ==
    /\ Compressed /\ Returned /\ ncalls = 1
    /\ Len(file) = 0 /\ obs.nEofRead = 1
    /\ gbRet = 116

\* C8: once Eof is set it stays set, and every later getbyte call on a
\* compressed container returns -1 and leaves the ring buffer, its cursor,
\* the tree and the match state as they were, in both decoder states.
C8_EofStep ==
    /\ Eof # 0 => Eof' # 0
    /\ (Compressed /\ Eof # 0) =>
          /\ gbRet' = C_EOF
          /\ fault' = ""
          /\ UNCHANGED << ring_buff, GBr, parent, son, freq,
                          GBstate, GBi, GBj, GBk >>

C8_EofSticky == [][C8_EofStep]_vars

\* a call entered with Eof set in the middle of a string, which returned -1
\* with bytes of the string still owed
C8_Witness ==
    /\ Compressed /\ Returned
    /\ obs.eofAtEntry # 0 /\ obs.stateAtEntry # 0
    /\ GBk < GBj /\ gbRet = C_EOF

\* C9: once Eof is set, no decoder operation calls GetChar (fgetc) again,
\* also not inside the call that first saw the end of the input.
C9_NoReadAfterEof == Compressed => obs.nAfterEof = 0

\* a call, every load of it inside its array, that called GetChar after
\* Eof had been set
C9_Witness ==
    /\ Compressed /\ Returned
    /\ obs.nWild = 0
    /\ obs.nAfterEof > 0

\* C10: without Eof, the call that decodes a match symbol of length L
\* returns the first byte of the string and each of the next L - 1 calls
\* returns the next one without calling DecodeChar; the state is still the
\* string state when the call returning the L-th byte ends, and the call
\* after it leaves the string state and decodes the next symbol; GBk never
\* exceeds GBj.
C10_Step ==
    /\ (Compressed /\ Eof = 0 /\ GBstate # 0 /\ GBk < GBj) =>
          /\ fault' = ""
          /\ obs'.nDecodeChar = 0
          /\ gbRet' = ring_buff[(GBk + GBi) % SBSIZE]
          /\ GBk' = GBk + 1
          /\ GBstate' # 0
          /\ UNCHANGED << GBi, GBj >>
    /\ (Compressed /\ Eof = 0 /\ GBstate # 0 /\ GBk = GBj) =>
          obs'.nDecodeChar = 1
    /\ (Compressed /\ Eof = 0 /\ GBstate = 0 /\ GBstate' # 0
           /\ fault' = "") =>
          /\ obs'.nDecodeChar = 1
          /\ GBk' = 1
          /\ GBj' >= THRESHOLD + 1
          /\ gbRet' = ring_buff[GBi']

C10_MatchDelivery == [](GBk <= GBj) /\ [][C10_Step]_vars

\* the call after the one that returned the last byte of a 60-byte string:
\* entered in the string state, it decoded the next symbol, with the input
\* not yet at its end and every load inside its array
C10_Witness ==
    /\ Compressed /\ Returned
    /\ obs.stateAtEntry # 0 /\ obs.nDecodeChar = 1
    /\ obs.eofAtEntry = 0 /\ obs.nWild = 0 /\ Eof = 0
    /\ ncalls = LASIZE + 2

\* the call that produced the current state was a getbyte call on a
\* compressed container that decoded a symbol and returned
Decoded == Compressed /\ Returned /\ obs.fn = "getbyte" /\ obs.sym # -1

\* C11 (as amended): a getbyte call that decodes a symbol s >= 256 leaves the
\* decompressor in the string state with GBj = s - 255 + THRESHOLD, the copy
\* begun at GBk = 0 (the call has delivered the first byte: GBk = 1); a call
\* that decodes s < 256 returns s and leaves the non-string state.
C11_MatchStart ==
    Decoded =>
        IF obs.sym >= 256
        THEN GBstate = 255 /\ GBj = obs.sym - 255 + THRESHOLD /\ GBk = 1
        ELSE GBstate = 0 /\ gbRet = obs.sym

\* C11 as stated: the length of the string is s - 256 + THRESHOLD.
C11_MatchStartFrom256 ==
    Decoded =>
        IF obs.sym >= 256
        THEN GBstate = 255 /\ GBj = obs.sym - 256 + THRESHOLD /\ GBk = 1
        ELSE GBstate = 0 /\ gbRet = obs.sym

\* the second call on a stream of zero bytes decoded the symbol 313 with
\* every load inside its array: a string of LASIZE bytes has begun
C11_Witness ==
    /\ Decoded /\ obs.nWild = 0
    /\ obs.sym = N_CHAR - 1 /\ GBj = LASIZE /\ GBstate = 255

\* a getbyte step on a compressed container that returns a byte of a string
\* whose distance is in 0..SBSIZE-1
MatchByteStep ==
    /\ Compressed /\ ncalls' = ncalls + 1 /\ fault' = ""
    /\ obs'.fn = "getbyte"
    /\ GBstate' = 255 /\ gbRet' # C_EOF
    /\ obs'.dist \in 0..(SBSIZE - 1)

\* C12: every byte of a string of distance d that getbyte returns is the byte
\* returned d + 1 bytes earlier, or the space the buffer was filled with if
\* fewer than d + 1 bytes had been returned; it is stored at ring_buff[GBr]
\* and GBr advances by 1 modulo SBSIZE.
C12_Step ==
    MatchByteStep =>
        LET n == Len(obs.emitted)
            d == obs'.dist
        IN  /\ gbRet' = IF n - d >= 1 THEN obs.emitted[n - d] ELSE 32
            /\ ring_buff'[GBr] = gbRet'
            /\ GBr' = (GBr + 1) % SBSIZE
            /\ obs'.emitted = Append(obs.emitted, gbRet')

C12_MatchCopy == [][C12_Step]_vars

\* the last byte of a string of LASIZE bytes at distance 0 has been
\* returned: the source overlaps the bytes the string itself wrote
\* (d + 1 < L), and source and cursor have passed the end of the buffer
C12_Witness ==
    /\ Compressed /\ Returned
    /\ obs.fn = "getbyte" /\ obs.nWild = 0
    /\ GBstate = 255 /\ gbRet # C_EOF
    /\ obs.dist = 0 /\ GBj = LASIZE /\ GBk = LASIZE
    /\ GBr < LASIZE /\ Len(obs.emitted) = LASIZE + 1

\* ------------------------------------------------------------------------
\* GetBit on its own: init_decompress, then calls of GetBit and nothing else
\* ------------------------------------------------------------------------
MaxBits == 20
MaxBitBytes == 2

\* bytes with none, one, two and all of the leading bits set
BitBytes == { 0, 128, 192, 255 }

BitStreams ==
    UNION { [1..n -> BitBytes] : n \in 0..MaxBitBytes }

\* the state after init_decompress() with fpi at the start of a stream
AfterInitDecompress(streams) ==
    /\ file \in streams
    /\ fpos = 0
    /\ \E g \in { init_decompress(ZeroGlobals) } : GlobalsAre(g)
    /\ pc = "caller"
    /\ fault = ""
    /\ gbRet = 0
    /\ obs = NoObs
    /\ ncalls = 0
    /\ MainAtStart

\* the caller's call of a function whose result is the machine r
Called(r, fn, arg) ==
    /\ SetGlobals(r)
    /\ fpos' = r.fpos
    /\ fault' = r.fault
    /\ gbRet' = r.ret
    /\ obs' = [r.obs EXCEPT !.fn = fn, !.arg = arg]
    /\ ncalls' = ncalls + 1
    /\ UNCHANGED << file, pc >>
    /\ UNCHANGED mainVars

InitBits == AfterInitDecompress(BitStreams)

\* one call of GetBit
CallGetBit ==
    /\ pc = "caller"
    /\ fault = ""
    /\ ncalls < MaxBits
    /\ \E r \in { GetBit(Machine(Trap)) } : Called(r, "GetBit", -1)

NextBits == CallGetBit

SpecBits == InitBits /\ [][NextBits]_vars

\* bit j of the byte b
BitOf(b, j) == (b \div Pow2(j)) % 2

\* C13: the k-th GetBit call after init_decompress (k = 0, 1, ...; the state
\* after it has ncalls = k + 1) returns bit 7 - (k mod 8) of source byte
\* floor(k / 8), a value in {0, 1}, and the source has been read once per 8
\* bits.
C13_GetBit ==
    (obs.fn = "GetBit" /\ fault = "" /\ (ncalls - 1) \div 8 < Len(file)) =>
        LET k == ncalls - 1
        IN  /\ gbRet \in {0, 1}
            /\ gbRet = BitOf(file[(k \div 8) + 1], 7 - (k % 8))
            /\ fpos = (k \div 8) + 1

\* the second GetBit call on a stream that starts with the byte 0x80 has
\* returned 2: the bit the first call shifted out of the low 16 bits of
\* Bitbuff is still part of Bitbuff >> 15
C13_Witness ==
    /\ obs.fn = "GetBit" /\ fault = "" /\ ncalls = 2
    /\ Len(file) > 0 /\ file[1] = 128
    /\ gbRet = 2

\* ------------------------------------------------------------------------
\* main as a running process: while it is decoding a payload it keeps
\* taking the steps of the switch (lines 422-490)
\* ------------------------------------------------------------------------
PayloadStep ==
    \/ RawSector
    \/ RleSector
    \/ ReadBlockType
    \/ LiteralBlock
    \/ ReadFragment
    \/ CopyFragment

SpecLive == Init /\ [][Next]_vars /\ WF_vars(PayloadStep)

\* main is decoding the payload of a sector (lines 422-490)
InPayload == pc \in { "m0", "m1", "m2", "literal", "fragment", "copy" }

\* the payload is decoded: the switch is left with the sector's
\* 128 << Ssize bytes produced, for method 2 by blocks that add up to them
PayloadDone ==
    /\ pc = "write"
    /\ sector_size = SectorBytes(Ssize)
    /\ Dmethod = 2 => (remain = 0 /\ p = SectorBytes(Ssize))

\* C14: decoding a sector's payload ends, with the sector's bytes produced
\* or in a fatal error.
C14_PayloadEnds == InPayload ~> (PayloadDone \/ pc = "error")

\* the process has died in a method-2 sector whose fragment was longer than
\* the fragment array, with neither the sector produced nor an error
\* reported
C14_Witness ==
    /\ pc = "killed" /\ err = ""
    /\ Dmethod = 2 /\ gh.overrun

\* ------------------------------------------------------------------------
\* update on its own: init_decompress, then calls of update with symbols of
\* the alphabet.  A run starts on the tree init_decompress builds or on the
\* tree a number of update calls have made of it.
\* ------------------------------------------------------------------------
MaxUpdates == 5

\* the symbols the caller passes: the least and the greatest literal and
\* the first and the last string symbol
TreeSymbols == { 0, 255, 256, N_CHAR - 1 }

\* freq[ROOT] is N_CHAR after init_decompress and grows by one with every
\* update: after this many calls the second call to come finds it at
\* MAX_FREQ
NearFull == MAX_FREQ - N_CHAR - 1

\* the symbol of the i-th of the calls made before the run starts
FeedSymbol(i, stride) == (i * stride) % N_CHAR

RECURSIVE Feed(_, _, _, _)
\* update(FeedSymbol(i, stride)) for i = lo..hi-1
Feed(g, lo, hi, stride) ==
    IF lo >= hi THEN g
    ELSE IF hi = lo + 1 THEN update(g, FeedSymbol(lo, stride))
    ELSE LET mid == (lo + hi) \div 2
         IN  Only({ IF h.fault # "" THEN h ELSE Feed(h, mid, hi, stride) :
                    h \in { Feed(g, lo, mid, stride) } })

\* calls made before the run starts: none, or NearFull calls with one
\* symbol or with every symbol in turn
Feeds == { << 0, 0 >>, << NearFull, 0 >>, << NearFull, 1 >> }

InitTree ==
    /\ file = << >>
    /\ fpos = 0
    /\ \E f \in Feeds :
         \E g \in { Feed(init_decompress(ZeroGlobals), 0, f[1], f[2]) } :
            GlobalsAre(g)
    /\ pc = "caller"
    /\ fault = ""
    /\ gbRet = 0
    /\ obs = NoObs
    /\ ncalls = 0
    /\ MainAtStart

\* one call of update
CallUpdate ==
    /\ pc = "caller"
    /\ fault = ""
    /\ ncalls < MaxUpdates
    /\ \E s \in TreeSymbols :
         \E r \in { update(Machine(Trap), s) } : Called(r, "update", s)

NextTree == CallUpdate

SpecTree == InitTree /\ [][NextTree]_vars

\* the tree is in the state init_decompress or a call of update left it in
TreeAtRest == fault = "" /\ obs.fn \in { "", "update" }

\* C15: after init_decompress and after every update(s), freq is sorted by
\* slot: freq[i] <= freq[i+1] for 0 <= i < TSIZE, freq[TSIZE] being the
\* sentinel 0xFFFF.
C15_FreqSorted ==
    TreeAtRest =>
        /\ \A i \in 0..(TSIZE - 1) : freq[i] <= freq[i + 1]
        /\ freq[TSIZE] = 65535

\* an update has exchanged slots, and another one has rebuilt the tree
C15_Witness ==
    /\ TreeAtRest /\ obs.fn = "update"
    /\ obs.nRebuild = 1
    /\ \E i \in 0..(N_CHAR - 1) : freq[i] > 1 /\ son[i] < TSIZE

\* the slots of the tree, and those that are leaves
Slots == 0..(TSIZE - 1)
IsLeaf(i) == son[i] >= TSIZE

\* C16: after init_decompress and after any sequence of update(s), son and
\* parent describe a strict binary tree rooted at ROOT over exactly N_CHAR
\* leaves: each symbol is the leaf of exactly one slot, every internal slot
\* n has the children son[n] and son[n]+1, both below n and both with
\* parent n, every slot but ROOT is the child of exactly one internal slot,
\* and parent[ROOT] = 0.
C16_StrictBinaryTree ==
    TreeAtRest =>
        /\ \A s \in 0..(N_CHAR - 1) :
              /\ parent[s + TSIZE] \in Slots
              /\ son[parent[s + TSIZE]] = s + TSIZE
        /\ \A i \in Slots :
              IF IsLeaf(i)
              THEN son[i] < TSIZE + N_CHAR /\ parent[son[i]] = i
              ELSE /\ son[i] + 1 < i
                   /\ parent[son[i]] = i /\ parent[son[i] + 1] = i
        /\ \A x \in 0..(ROOT - 1) :
              /\ parent[x] \in Slots
              /\ ~IsLeaf(parent[x])
              /\ x \in { son[parent[x]], son[parent[x]] + 1 }
        /\ ~IsLeaf(ROOT)
        /\ parent[ROOT] = 0
        /\ Cardinality({ i \in Slots : IsLeaf(i) }) = N_CHAR

\* updates of a string symbol and of a literal have exchanged slots of the
\* tree built by init_decompress
C16_Witness ==
    /\ TreeAtRest /\ obs.fn = "update" /\ ncalls = MaxUpdates
    /\ obs.nRebuild = 0 /\ freq[ROOT] = N_CHAR + MaxUpdates
    /\ parent[TSIZE + 256] # 256 /\ parent[TSIZE + 255] # 255

RECURSIVE LeafSum(_, _)
\* the sum of the frequencies of the leaves among the slots lo..hi-1
LeafSum(lo, hi) ==
    IF lo >= hi THEN 0
    ELSE IF hi = lo + 1 THEN (IF IsLeaf(lo) THEN freq[lo] ELSE 0)
    ELSE LeafSum(lo, (lo + hi) \div 2) + LeafSum((lo + hi) \div 2, hi)

\* C17: after init_decompress and after every update(s), every internal
\* node n has freq[n] = freq[son[n]] + freq[son[n]+1]; no node has a smaller
\* frequency than a child of it, and freq[ROOT] is the sum of the leaf
\* frequencies.
C17_FreqSums ==
    TreeAtRest =>
        /\ \A n \in Slots :
              ~IsLeaf(n) =>
                 /\ freq[n] = freq[son[n]] + freq[son[n] + 1]
                 /\ freq[n] >= freq[son[n]] /\ freq[n] >= freq[son[n] + 1]
        /\ freq[ROOT] = LeafSum(0, TSIZE)

\* a call of update(0) has left freq[ROOT] at MAX_FREQ on a tree that had
\* seen nothing but update(0): the leaf of the symbol 0 is a child of the
\* root and holds all of freq[ROOT] but the N_CHAR - 1 of the other leaves
C17_Witness ==
    /\ TreeAtRest /\ obs.fn = "update" /\ obs.arg = 0
    /\ obs.nRebuild = 0
    /\ parent[parent[TSIZE]] = ROOT
    /\ freq[parent[TSIZE]] = freq[ROOT] - (N_CHAR - 1)
    /\ freq[ROOT] = MAX_FREQ

RECURSIVE HalvedLeafSum(_, _)
\* the sum of (freq[i] + 1) / 2 over the leaves among the slots lo..hi-1
HalvedLeafSum(lo, hi) ==
    IF lo >= hi THEN 0
    ELSE IF hi = lo + 1
    THEN (IF IsLeaf(lo) THEN (freq[lo] + 1) \div 2 ELSE 0)
    ELSE HalvedLeafSum(lo, (lo + hi) \div 2)
         + HalvedLeafSum((lo + hi) \div 2, hi)

\* a call of update that returns
UpdateStep ==
    ncalls' = ncalls + 1 /\ obs'.fn = "update" /\ fault = "" /\ fault' = ""

\* C18: the rebuild is done by exactly the update calls entered with
\* freq[ROOT] = MAX_FREQ, once in such a call; right after it the root
\* frequency is the sum of the halved leaf frequencies and is below
\* MAX_FREQ; and freq[ROOT] is never above MAX_FREQ.
C18_Step ==
    UpdateStep =>
        IF freq[ROOT] = MAX_FREQ
        THEN /\ obs'.nRebuild = 1
             /\ obs'.rootAfterRebuild = HalvedLeafSum(0, TSIZE)
             /\ obs'.rootAfterRebuild < MAX_FREQ
             /\ freq'[ROOT] = obs'.rootAfterRebuild + 1
        ELSE /\ obs'.nRebuild = 0
             /\ freq'[ROOT] = freq[ROOT] + 1

C18_RebuildAtMaxFreq ==
    [](TreeAtRest => freq[ROOT] <= MAX_FREQ) /\ [][C18_Step]_vars

\* an update call was entered with freq[ROOT] = MAX_FREQ and has rebuilt
\* the tree
C18_Witness ==
    /\ TreeAtRest /\ obs.fn = "update"
    /\ obs.rootAtUpdate = MAX_FREQ /\ obs.nRebuild = 1
    /\ obs.rootAfterRebuild < MAX_FREQ
    /\ freq[ROOT] = obs.rootAfterRebuild + 1

\* ------------------------------------------------------------------------
\* DecodeChar on its own, on an input of zero bytes: the symbols getbyte
\* decodes from such an input (the positions of its strings are zero bits
\* as well and leave the tree alone).  A run starts after init_decompress
\* or after a number of DecodeChar calls on the same input.
\* ------------------------------------------------------------------------
MaxWalks == 4
WalkBytes == 33400
WarmSpread == 30

RECURSIVE Zeros(_)
\* n zero bytes
Zeros(n) ==
    IF n = 0 THEN << >>
    ELSE Only({ h \o h \o (IF n % 2 = 1 THEN <<0>> ELSE << >>) :
                h \in { Zeros(n \div 2) } })

\* the input
ZeroStream == Zeros(WalkBytes)

RECURSIVE Walks(_, _, _)
\* DecodeChar() hi - lo times
Walks(g, lo, hi) ==
    IF lo >= hi THEN g
    ELSE IF hi = lo + 1 THEN DecodeChar(g)
    ELSE LET mid == (lo + hi) \div 2
         IN  Only({ IF h.fault # "" THEN h ELSE Walks(h, mid, hi) :
                    h \in { Walks(g, lo, mid) } })

InitWalk ==
    /\ file = ZeroStream
    /\ \E b \in { Walks(init_decompress(ZeroGlobals), 0,
                          NearFull - WarmSpread) } :
         \E g \in { init_decompress(ZeroGlobals) }
                  \cup { Walks(b, 0, j) : j \in 0..WarmSpread } :
            /\ GlobalsAre(g)
            /\ fpos = g.fpos
    /\ pc = "caller"
    /\ fault = ""
    /\ gbRet = 0
    /\ obs = NoObs
    /\ ncalls = 0
    /\ MainAtStart

\* one call of DecodeChar, as getbyte makes it: Eof is not set
CallDecodeChar ==
    /\ pc = "caller"
    /\ fault = ""
    /\ Eof = 0
    /\ ncalls < MaxWalks
    /\ \E r \in { DecodeChar(Machine(Trap)) } : Called(r, "DecodeChar", -1)

NextWalk == CallDecodeChar

SpecWalk == InitWalk /\ [][NextWalk]_vars

\* a call of DecodeChar that returns
DecodeCharStep ==
    ncalls' = ncalls + 1 /\ obs'.fn = "DecodeChar" /\ fault' = ""

\* C19 (as amended): a rebuild that is due is done at the start of the next
\* update call, before that call adds to a frequency; the DecodeChar call
\* that makes this update call has walked the tree whose root frequency is
\* MAX_FREQ.  No other DecodeChar call rebuilds.
C19_Step ==
    DecodeCharStep =>
        /\ obs'.walkRoot = freq[ROOT]
        /\ obs'.rootAtUpdate = freq[ROOT]
        /\ IF freq[ROOT] = MAX_FREQ
           THEN /\ obs'.nRebuild = 1
                /\ obs'.rootAfterRebuild < MAX_FREQ
                /\ freq'[ROOT] = obs'.rootAfterRebuild + 1
           ELSE /\ obs'.nRebuild = 0
                /\ freq'[ROOT] = freq[ROOT] + 1

C19_RebuildAfterWalk == [][C19_Step]_vars

\* C19 as stated: DecodeChar never starts its walk on a tree whose root
\* frequency is MAX_FREQ.
C19_NoWalkAtMaxFreq ==
    (obs.fn = "DecodeChar" /\ fault = "") => obs.walkRoot # MAX_FREQ

\* a DecodeChar call has walked the tree with freq[ROOT] = MAX_FREQ and its
\* update has rebuilt it
C19_Witness ==
    /\ obs.fn = "DecodeChar" /\ fault = "" /\ obs.nWild = 0
    /\ obs.walkRoot = MAX_FREQ /\ obs.nRebuild = 1
    /\ freq[ROOT] = obs.rootAfterRebuild + 1

\* ------------------------------------------------------------------------
\* DecodePosition on its own: calls of GetBit and DecodePosition, in any
\* order, after init_decompress on a short stream
\* ------------------------------------------------------------------------
MaxPosCalls == 4
MaxPosBytes == 3

\* bytes with none, the first and all of the bits set
PosBytes == { 0, 128, 255 }

PosStreams ==
    UNION { [1..n -> PosBytes] : n \in 0..MaxPosBytes }

InitPos == AfterInitDecompress(PosStreams)

\* one call of DecodePosition
CallDecodePosition ==
    /\ pc = "caller"
    /\ fault = ""
    /\ ncalls < MaxPosCalls
    /\ \E w \in Wild \cup {Trap} :
          \E r \in { DecodePosition(Machine(w)) } :
              Called(r, "DecodePosition", -1)

NextPos == CallGetBit \/ CallDecodePosition

SpecPos == InitPos /\ [][NextPos]_vars

\* the bits of the source taken so far: GetChar has read fpos bytes, and
\* Bits of the bits of the last one are still to come
BitsTaken == 8 * fpos - Bits

RECURSIVE SourceBits(_, _)
\* the number made of the n bits of the source that follow bit k, the
\* first of them its most significant bit
SourceBits(k, n) ==
    IF n = 0 THEN 0
    ELSE 2 * SourceBits(k, n - 1)
         + BitOf(file[((k + n - 1) \div 8) + 1], 7 - ((k + n - 1) % 8))

\* a call of DecodePosition that returns, with all the bits it may take
\* in the source
DecodePositionStep ==
    /\ ncalls' = ncalls + 1 /\ obs'.fn = "DecodePosition" /\ fault' = ""
    /\ Eof' = 0
    /\ BitsTaken + 8 + 7 <= 8 * Len(file)

\* C20: a DecodePosition call takes one byte i of the source by one GetByte
\* call, then d_len[i >> 4] bits by GetBit calls, folds them into i, the
\* first as the most significant, and returns (i & 0x3F) | (d_code[i] << 6),
\* a distance in 0..SBSIZE-1.
C20_Step ==
    DecodePositionStep =>
        LET i == SourceBits(BitsTaken, 8)
            n == d_len[Shr(i, 4)]
            folded == i * Pow2(n) + SourceBits(BitsTaken + 8, n)
        IN  /\ obs'.nGetByte = 1
            /\ obs'.posByte = i
            /\ obs'.nGetBit = n
            /\ BitsTaken' = BitsTaken + 8 + n
            /\ gbRet' = BitOr(BitAnd(folded, 63), d_code[i] * Pow2(6))
            /\ gbRet' \in 0..(SBSIZE - 1)

C20_DecodePosition == [][C20_Step]_vars

\* a DecodePosition call that followed a 1 bit has returned: GetByte gave it
\* more than a byte, and its loads of d_code and d_len fell outside the
\* tables
C20_Witness ==
    /\ obs.fn = "DecodePosition" /\ fault = ""
    /\ obs.nGetByte = 1
    /\ obs.posByte > 255
    /\ obs.nWild = 2

\* ------------------------------------------------------------------------
\* Array indices of the decompressor, stated over SpecGB
\* ------------------------------------------------------------------------

\* C21: in every getbyte call after init_decompress, on any input, the
\* symbol DecodeChar hands to update is in 0..N_CHAR-1 and every index of
\* son, freq, parent, d_code, d_len and ring_buff is inside its array: no
\* load falls outside an array (none is answered by a wild value, none
\* kills the process) and no store does.
C21_IndicesInBounds ==
    (Compressed /\ ncalls > 0) =>
        /\ fault \notin { "load", "store" }
        /\ obs.nWild = 0
        /\ obs.sym # -1 => obs.sym \in 0..(N_CHAR - 1)

\* a getbyte call on a compressed stream has loaded from outside an array
C21_Witness ==
    /\ Compressed /\ ncalls > 0 /\ obs.fn = "getbyte"
    /\ obs.nGetBit > 0
    /\ fault = "load" \/ obs.nWild > 0

\* ------------------------------------------------------------------------
\* The fragment array of method 2, stated over Spec
\* ------------------------------------------------------------------------

\* C22: in a method-2 sector the bytes read into the fragment array are
\* never more than the 256 it holds, whatever the block type, and no copy
\* of a fragment stores past the end of the sector buffer.
C22_FragmentFits ==
    Dmethod = 2 =>
        /\ Len(fragment) <= FRAGMENT_BYTES
        /\ ~gh.overrun
        /\ gh.hiWrite <= sector_size

\* a block of a type from 9 to 30 has been read in a method-2 sector: its
\* fragment is longer than the fragment array
C22_Witness ==
    /\ Dmethod = 2 /\ gh.kind = "fragment"
    /\ blocktype \in 9..30 /\ frag_size = Pow2(blocktype)
    /\ Len(fragment) = frag_size /\ frag_size > FRAGMENT_BYTES
    /\ gh.overrun

=============================================================================
